---- MODULE Spec2Model ----
(***************************************************************************)
(* Model of traffic-notify-bot (src/main.py): the subscriber registries    *)
(* (USERS, PENDING, KNOWN_USERS), the administrator identity               *)
(* (ADMIN_CHAT_ID) and the reconciliation loop (fetch_and_notify).         *)
(*                                                                         *)
(* Strings are sequences of one-character strings so that                  *)
(* normalize_username, str(chat_id), int(ADMIN_CHAT_ID) and the split of   *)
(* callback data are computed as the code computes them.  The words        *)
(* "approve", "deny", "other" and "user_" are kept as single tokens; none  *)
(* of them contains "@", ":" or an upper-case letter.                      *)
(*                                                                         *)
(* Every handler is one action: its state changes all happen before its    *)
(* first await that follows them.  The only exception is cmd_start, whose  *)
(* send to the administrator is a second step, so that other handlers can  *)
(* run while it is suspended.  Updates come from private chats, where      *)
(* update.effective_chat.id = update.effective_user.id.                    *)
(***************************************************************************)
EXTENDS Integers, Sequences, FiniteSets, TLC

VARIABLES
    ADMIN_CHAT_ID,   \* module global: None, the string of the environment, or an int
    envFile,         \* the ADMIN_CHAT_ID line of .env
    USERS,           \* list of approved chat ids
    PENDING,         \* dict handle -> chat id
    KNOWN_USERS,     \* dict handle -> chat id
    usersFile,       \* users.json
    pendingFile,     \* pending.json
    knownFile,       \* known_users.json
    ret,             \* what approve_user / deny_user returned to the last handler
    reply,           \* the text the last handler answered with
    awaiting,        \* cmd_start calls suspended at the send to the administrator
    corners,         \* latlon_to_tile of the two corners of the bounding box
    pc,              \* where fetch_and_notify is in its cycle
    version,         \* the layer version of this cycle
    todo,            \* the tiles this cycle has still to fetch, in the order of the loops
    new_accidents,   \* dict (lat, lon) -> description of this cycle
    appeared_accidents,  \* the identities of the entries of the list
    resolved_accidents,
    message,         \* the message of this cycle: no text, or the entries of the two lists
    CURRENT_ACCIDENTS,   \* module global: the live dict (lat, lon) -> description
    JSON_STORAGE,    \* accidents.json: whether it exists, and its dict "lat,lon" -> description
    tasks,           \* the places in USERS of the loops of the send_notification
                     \* tasks that have not returned
    dispatch,        \* history: the deliveries one send_notification task has attempted
                     \* and the chat ids that stayed in USERS since it was created
    by_handle,       \* history: handle -> the chat id an approve of it appended to USERS
    outage           \* history: whether a tile fetch of this cycle failed, and the
                     \* identities dropped from the live set in such a cycle

regVars == <<ADMIN_CHAT_ID, envFile, USERS, PENDING, KNOWN_USERS,
             usersFile, pendingFile, knownFile, ret, reply, awaiting>>

cycleVars == <<corners, pc, version, todo, new_accidents, appeared_accidents,
               resolved_accidents, message, CURRENT_ACCIDENTS, JSON_STORAGE, tasks>>

histVars == <<dispatch, by_handle, outage>>

vars == <<regVars, cycleVars, histVars>>

-----------------------------------------------------------------------------
(* Bounds *)

MaxChat == 2

\* tile coordinates of a corner range over 0..MaxTile
MaxTile == 1

\* features in one tile
MaxFeatures == 2

ChatIds == 1..MaxChat

-----------------------------------------------------------------------------
(* Strings *)

None == <<"None">>

DigitChars == <<"0", "1", "2", "3", "4", "5", "6", "7", "8", "9">>

RECURSIVE str(_)
str(n) == IF n < 10 THEN <<DigitChars[n + 1]>>
          ELSE str(n \div 10) \o <<DigitChars[(n % 10) + 1]>>

IsDigit(ch) == \E i \in 1..10 : DigitChars[i] = ch

DigitValue(ch) == (CHOOSE i \in 1..10 : DigitChars[i] = ch) - 1

\* int(s) for a string of the environment: ValueError is modelled as -1.
RECURSIVE int(_)
int(s) == IF s = <<>> \/ \E i \in 1..Len(s) : ~IsDigit(s[i]) THEN -1
          ELSE IF Len(s) = 1 THEN DigitValue(s[1])
          ELSE 10 * int(SubSeq(s, 1, Len(s) - 1)) + DigitValue(s[Len(s)])

lower(ch) == IF ch = "A" THEN "a" ELSE IF ch = "B" THEN "b" ELSE ch

RECURSIVE lstrip(_)
lstrip(s) == IF s # <<>> /\ s[1] = "@" THEN lstrip(Tail(s)) ELSE s

normalize_username(u) ==
    IF u = None \/ u = <<>> THEN <<>>
    ELSE [i \in 1..Len(lstrip(u)) |-> lower(lstrip(u)[i])]

\* f"user_{chat_id}"
FallbackName(chat_id) == <<"user_">> \o str(chat_id)

-----------------------------------------------------------------------------
(* Dicts *)

EmptyDict == [h \in {} |-> 0]

\* the dict is replaced by one that holds the new entry alone
DictSet_fresh(d, k, v) == [h \in {k} |-> v]

DictSet(d, k, v) == [h \in DOMAIN d \cup {k} |-> IF h = k THEN v ELSE d[h]]

DictPop(d, k) == [h \in DOMAIN d \ {k} |-> d[h]]

Range(l) == {l[i] : i \in 1..Len(l)}

InList(x, l) == \E i \in 1..Len(l) : l[i] = x

\* the first element is removed whatever it is
ListRemove_first(l, x) == Tail(l)

\* list.remove(x): removes the first occurrence
RECURSIVE ListRemove(_, _)
ListRemove(l, x) == IF l = <<>> THEN <<>>
                    ELSE IF Head(l) = x THEN Tail(l)
                    ELSE <<Head(l)>> \o ListRemove(Tail(l), x)

-----------------------------------------------------------------------------
(* Inputs *)

\* user.username of an update: None when the user has none
UserNames == {None, <<"A">>}

\* context.args[0] of /approve, /deny and /revoke
ArgNames == {<<"@", "A">>} \cup {FallbackName(c) : c \in ChatIds}

ArgLists == {<<>>} \cup {<<n>> : n \in ArgNames}

\* the handles cmd_start puts on its buttons
ButtonNames == {<<"a">>} \cup {FallbackName(c) : c \in ChatIds}

\* query.data of a button callback
CallbackData == {<<>>, <<"other", ":", "a">>}
                \cup {<<cmd, ":">> \o n : cmd \in {"approve", "deny"}, n \in ButtonNames}

\* ADMIN_CHAT_ID of the environment: unset, empty, not a number, a chat id
EnvValues == {None, <<>>, <<"x">>, str(1)}

-----------------------------------------------------------------------------
(* Administrator *)

NoneInt == -1

\* no approve_user / deny_user call in the handler
NoRet == [ok |-> FALSE, msg |-> "None"]

AdminNone == [kind |-> "None", s |-> <<>>, n |-> 0]
AdminStr(s) == [kind |-> "str", s |-> s, n |-> 0]
AdminInt(n) == [kind |-> "int", s |-> <<>>, n |-> n]

\* the truth value of ADMIN_CHAT_ID
Truthy(a) == \/ a.kind = "str" /\ a.s # <<>>
             \/ a.kind = "int" /\ a.n # 0

get_admin_chat_id ==
    IF Truthy(ADMIN_CHAT_ID)
    THEN IF ADMIN_CHAT_ID.kind = "int" THEN ADMIN_CHAT_ID.n
         ELSE int(ADMIN_CHAT_ID.s)      \* ValueError is -1 = NoneInt
    ELSE NoneInt

\* if admin_chat:
AdminChatSet(admin_chat) == admin_chat # NoneInt /\ admin_chat # 0

\* only an administrator set by the command counts
IsAdminSet_command(a) == a.kind = "int"

IsAdminSet(a) == a.kind # "None"

cmd_set_me_as_admin(chat_id, username) ==
    /\ IF IsAdminSet(ADMIN_CHAT_ID)
       THEN /\ reply' = "AdminAlreadySet"
            /\ UNCHANGED <<ADMIN_CHAT_ID, envFile>>
       ELSE IF username = None
       THEN /\ reply' = "NeedUsername"
            /\ UNCHANGED <<ADMIN_CHAT_ID, envFile>>
       ELSE /\ envFile' = str(chat_id)
            /\ ADMIN_CHAT_ID' = AdminInt(chat_id)
            /\ reply' = "NowAdmin"
    /\ UNCHANGED <<USERS, PENDING, KNOWN_USERS, usersFile, pendingFile,
                   knownFile, awaiting>>
    /\ ret' = NoRet

-----------------------------------------------------------------------------
(* Subscriber registry *)

save_all ==
    /\ usersFile' = USERS'
    /\ pendingFile' = PENDING'
    /\ knownFile' = KNOWN_USERS'

StartName(chat_id, username) ==
    IF normalize_username(username) # <<>> THEN normalize_username(username)
    ELSE FallbackName(chat_id)

\* the test of PENDING comes before the test of USERS
cmd_start_queue_first(chat_id, uname, suspend) ==
    LET username == StartName(chat_id, uname) IN
    /\ KNOWN_USERS' = DictSet(KNOWN_USERS, username, chat_id)
    /\ knownFile' = KNOWN_USERS'
    /\ IF username \in DOMAIN PENDING
       THEN /\ reply' = "AlreadyQueued"
            /\ UNCHANGED <<PENDING, pendingFile, awaiting>>
       ELSE IF InList(chat_id, USERS)
       THEN /\ reply' = "AlreadySubscribed"
            /\ UNCHANGED <<PENDING, pendingFile, awaiting>>
       ELSE /\ PENDING' = DictSet(PENDING, username, chat_id)
            /\ pendingFile' = PENDING'
            /\ IF AdminChatSet(get_admin_chat_id)
               THEN IF suspend
                    THEN /\ awaiting' = awaiting \cup
                                        {[chat |-> chat_id, username |-> username]}
                         /\ reply' = "None"
                    ELSE /\ reply' = "Submitted"
                         /\ UNCHANGED awaiting
               ELSE /\ reply' = "SubmittedNoAdmin"
                    /\ UNCHANGED awaiting
    /\ ret' = NoRet
    /\ UNCHANGED <<ADMIN_CHAT_ID, envFile, USERS, usersFile>>

\* suspend: the handler is suspended at its send to the administrator and other
\* handlers run before it goes on (notify_admin); otherwise it runs to its end.
cmd_start(chat_id, uname, suspend) ==
    LET username == StartName(chat_id, uname) IN
    /\ KNOWN_USERS' = DictSet(KNOWN_USERS, username, chat_id)
    /\ knownFile' = KNOWN_USERS'
    /\ IF InList(chat_id, USERS)
       THEN /\ reply' = "AlreadySubscribed"
            /\ UNCHANGED <<PENDING, pendingFile, awaiting>>
       ELSE IF username \in DOMAIN PENDING
       THEN /\ reply' = "AlreadyQueued"
            /\ UNCHANGED <<PENDING, pendingFile, awaiting>>
       ELSE /\ PENDING' = DictSet(PENDING, username, chat_id)
            /\ pendingFile' = PENDING'
            /\ IF AdminChatSet(get_admin_chat_id)
               THEN IF suspend
                    THEN /\ awaiting' = awaiting \cup
                                        {[chat |-> chat_id, username |-> username]}
                         /\ reply' = "None"
                    ELSE /\ reply' = "Submitted"
                         /\ UNCHANGED awaiting
               ELSE /\ reply' = "SubmittedNoAdmin"
                    /\ UNCHANGED awaiting
    /\ ret' = NoRet
    /\ UNCHANGED <<ADMIN_CHAT_ID, envFile, USERS, usersFile>>

\* cmd_start from its send to the administrator on; the send returns or raises
\* (sent), and the handler answers the same text in both cases.
notify_admin(r, sent) ==
    /\ r \in awaiting
    /\ awaiting' = awaiting \ {r}
    /\ reply' = "Submitted"
    /\ ret' = NoRet
    /\ UNCHANGED <<ADMIN_CHAT_ID, envFile, USERS, PENDING, KNOWN_USERS,
                   usersFile, pendingFile, knownFile>>

\* the handle stays in PENDING
approve_user_keeps(username, by_admin) ==
    LET u == normalize_username(username) IN
    IF u \notin DOMAIN PENDING
    THEN /\ ret' = [ok |-> FALSE, msg |-> "NotPending"]
         /\ UNCHANGED <<USERS, PENDING, KNOWN_USERS, usersFile, pendingFile, knownFile>>
    ELSE /\ USERS' = IF ~InList(PENDING[u], USERS) THEN Append(USERS, PENDING[u])
                     ELSE USERS
         /\ UNCHANGED <<PENDING, KNOWN_USERS>>
         /\ save_all
         /\ ret' = [ok |-> TRUE, msg |-> "Approved"]

\* the chat id is appended without the test
approve_user_appends(username, by_admin) ==
    LET u == normalize_username(username) IN
    IF u \notin DOMAIN PENDING
    THEN /\ ret' = [ok |-> FALSE, msg |-> "NotPending"]
         /\ UNCHANGED <<USERS, PENDING, KNOWN_USERS, usersFile, pendingFile, knownFile>>
    ELSE /\ PENDING' = DictPop(PENDING, u)
         /\ USERS' = Append(USERS, PENDING[u])
         /\ UNCHANGED KNOWN_USERS
         /\ save_all
         /\ ret' = [ok |-> TRUE, msg |-> "Approved"]

approve_user(username, by_admin) ==
    LET u == normalize_username(username) IN
    IF u \notin DOMAIN PENDING
    THEN /\ ret' = [ok |-> FALSE, msg |-> "NotPending"]
         /\ UNCHANGED <<USERS, PENDING, KNOWN_USERS, usersFile, pendingFile, knownFile>>
    ELSE /\ PENDING' = DictPop(PENDING, u)
         /\ USERS' = IF ~InList(PENDING[u], USERS) THEN Append(USERS, PENDING[u])
                     ELSE USERS
         /\ UNCHANGED KNOWN_USERS
         /\ save_all
         /\ ret' = [ok |-> TRUE, msg |-> "Approved"]

\* PENDING is cleared
deny_user_clears(username, by_admin) ==
    LET u == normalize_username(username) IN
    IF u \notin DOMAIN PENDING
    THEN /\ ret' = [ok |-> FALSE, msg |-> "NotPending"]
         /\ UNCHANGED <<USERS, PENDING, KNOWN_USERS, usersFile, pendingFile, knownFile>>
    ELSE /\ PENDING' = EmptyDict
         /\ UNCHANGED <<USERS, KNOWN_USERS>>
         /\ save_all
         /\ ret' = [ok |-> TRUE, msg |-> "Denied"]

deny_user(username, by_admin) ==
    LET u == normalize_username(username) IN
    IF u \notin DOMAIN PENDING
    THEN /\ ret' = [ok |-> FALSE, msg |-> "NotPending"]
         /\ UNCHANGED <<USERS, PENDING, KNOWN_USERS, usersFile, pendingFile, knownFile>>
    ELSE /\ PENDING' = DictPop(PENDING, u)
         /\ UNCHANGED <<USERS, KNOWN_USERS>>
         /\ save_all
         /\ ret' = [ok |-> TRUE, msg |-> "Denied"]

NoRegistryChange ==
    UNCHANGED <<USERS, PENDING, KNOWN_USERS, usersFile, pendingFile, knownFile>>

cmd_approve(chat_id, args) ==
    /\ IF chat_id # get_admin_chat_id
       THEN reply' = "OnlyAdmin" /\ NoRegistryChange /\ ret' = NoRet
       ELSE IF Len(args) < 1
       THEN reply' = "Usage" /\ NoRegistryChange /\ ret' = NoRet
       ELSE /\ approve_user(normalize_username(args[1]), chat_id)
            /\ reply' = ret'.msg
    /\ UNCHANGED <<ADMIN_CHAT_ID, envFile, awaiting>>

cmd_deny(chat_id, args) ==
    /\ IF chat_id # get_admin_chat_id
       THEN reply' = "OnlyAdmin" /\ NoRegistryChange /\ ret' = NoRet
       ELSE IF Len(args) < 1
       THEN reply' = "Usage" /\ NoRegistryChange /\ ret' = NoRet
       ELSE /\ deny_user(normalize_username(args[1]), chat_id)
            /\ reply' = ret'.msg
    /\ UNCHANGED <<ADMIN_CHAT_ID, envFile, awaiting>>

cmd_revoke(chat_id, args) ==
    /\ IF chat_id # get_admin_chat_id
       THEN reply' = "OnlyAdmin" /\ NoRegistryChange
       ELSE IF Len(args) < 1
       THEN reply' = "Usage" /\ NoRegistryChange
       ELSE LET username == normalize_username(args[1]) IN
            IF username \notin DOMAIN KNOWN_USERS \/ KNOWN_USERS[username] = 0
            THEN reply' = "UnknownUser" /\ NoRegistryChange
            ELSE IF InList(KNOWN_USERS[username], USERS)
            THEN /\ USERS' = ListRemove(USERS, KNOWN_USERS[username])
                 /\ UNCHANGED <<PENDING, KNOWN_USERS>>
                 /\ save_all
                 /\ reply' = "Revoked"
            ELSE reply' = "NotSubscribed" /\ NoRegistryChange
    /\ ret' = NoRet
    /\ UNCHANGED <<ADMIN_CHAT_ID, envFile, awaiting>>

\* data.split(":", 1)
HasColon(data) == \E i \in 1..Len(data) : data[i] = ":"

FirstColon(data) == CHOOSE i \in 1..Len(data) :
                        data[i] = ":" /\ \A j \in 1..(i - 1) : data[j] # ":"

SplitCmd(data) == SubSeq(data, 1, FirstColon(data) - 1)

SplitName(data) == SubSeq(data, FirstColon(data) + 1, Len(data))

\* answered: query.answer() returned instead of raising.  The handler deletes
\* or edits the button message afterwards and answers with no text of its own
\* on the approve and deny paths.
callback_handler(chat_id, data, answered) ==
    /\ IF ~answered
       THEN reply' = "None" /\ NoRegistryChange /\ ret' = NoRet
       ELSE IF ~HasColon(data)
       THEN reply' = "NotUnderstood" /\ NoRegistryChange /\ ret' = NoRet
       ELSE IF SplitCmd(data) = <<"approve">>
       THEN /\ approve_user(normalize_username(SplitName(data)), chat_id)
            /\ reply' = "None"
       ELSE IF SplitCmd(data) = <<"deny">>
       THEN /\ deny_user(normalize_username(SplitName(data)), chat_id)
            /\ reply' = "None"
       ELSE reply' = "UnknownAction" /\ NoRegistryChange /\ ret' = NoRet
    /\ UNCHANGED <<ADMIN_CHAT_ID, envFile, awaiting>>

-----------------------------------------------------------------------------
(* Reconciliation loop.  Coordinates are in hundredths of a degree.        *)

\* the defaults of --lat_min, --lon_min, --lat_max, --lon_max
lat_min == 5555
lon_min == 3735
lat_max == 5591
lon_max == 3785

\* properties.eventType of an accident
AccidentType == 1

\* A feature of a tile.  props, geom, desc: the feature has "properties" with
\* "eventType", "geometry" with "coordinates", and "description".
Feature(props, eventType, geom, lat, lon, desc, description) ==
    [props |-> props, eventType |-> eventType, geom |-> geom, lat |-> lat,
     lon |-> lon, desc |-> desc, description |-> description]

FeaturePool ==
    { Feature(TRUE, 1, TRUE, 5560, 3740, TRUE, "d1"),
      Feature(TRUE, 1, TRUE, 5560, 3740, TRUE, "d2"),
      Feature(TRUE, 1, TRUE, 5591, 3785, TRUE, "d1"),
      Feature(TRUE, 1, TRUE, 5555, 3735, TRUE, "d1"),
      Feature(TRUE, 2, TRUE, 5570, 3750, TRUE, "d1"),    \* not an accident
      Feature(TRUE, 1, TRUE, 5592, 3740, TRUE, "d1"),    \* outside the box
      Feature(FALSE, 0, TRUE, 5560, 3740, TRUE, "d1"),   \* no properties
      Feature(TRUE, 1, FALSE, 0, 0, TRUE, "d1"),         \* no geometry
      Feature(TRUE, 1, TRUE, 5591, 3785, FALSE, "d1") }  \* no description

RECURSIVE SeqsUpTo(_, _)
SeqsUpTo(S, n) == IF n = 0 THEN {<<>>}
                  ELSE SeqsUpTo(S, n - 1) \cup
                       {Append(s, x) : s \in {q \in SeqsUpTo(S, n - 1) : Len(q) = n - 1},
                                       x \in S}

\* data["data"]["features"] of a tile that was fetched and parsed
FeatureLists == SeqsUpTo(FeaturePool, MaxFeatures)

\* what the source answers to the request of a tile
TileAnswers == {[kind |-> k, features |-> <<>>] : k \in {"failed", "empty"}}
               \cup {[kind |-> "features", features |-> fs] : fs \in FeatureLists}

in_bounds(lat, lon) ==
    (lat_min <= lat /\ lat <= lat_max) /\ (lon_min <= lon /\ lon <= lon_max)

\* The loop of extract_accidents from the feature list on, with the accidents
\* found so far: an exception ends the loop and the function returns them.
RECURSIVE extract_from(_, _)
extract_from(features, accidents) ==
    IF features = <<>> THEN accidents
    ELSE LET f == Head(features) IN
         IF ~f.props THEN accidents
         ELSE IF f.eventType = AccidentType
         THEN IF ~f.geom THEN accidents
              ELSE IF in_bounds(f.lat, f.lon)
              THEN IF ~f.desc THEN accidents
                   ELSE extract_from(Tail(features),
                                     DictSet(accidents, <<f.lat, f.lon>>, f.description))
              ELSE extract_from(Tail(features), accidents)
         ELSE extract_from(Tail(features), accidents)

extract_accidents(features) == extract_from(features, EmptyDict)

\* dict.update
DictUpdate(d, e) == [k \in DOMAIN d \cup DOMAIN e |-> IF k \in DOMAIN e THEN e[k] ELSE d[k]]

\* f"{k[0]},{k[1]}"
FormatKey(k) == str(k[1]) \o <<",">> \o str(k[2])

\* tuple(map(float, k.split(",")))
CommaAt(s) == CHOOSE i \in 1..Len(s) : s[i] = ","

ParseKey(s) == <<int(SubSeq(s, 1, CommaAt(s) - 1)), int(SubSeq(s, CommaAt(s) + 1, Len(s)))>>

KeyOf(d, s) == CHOOSE k \in DOMAIN d : FormatKey(k) = s

\* json.dump({f"{k[0]},{k[1]}": v for k, v in new_accidents.items()}, f)
DumpAccidents(d) == [s \in {FormatKey(k) : k \in DOMAIN d} |-> d[KeyOf(d, s)]]

NoFile == [exists |-> FALSE, data |-> EmptyDict]

File(data) == [exists |-> TRUE, data |-> data]

\* the load of accidents.json at startup
LoadAccidents(file) ==
    IF ~file.exists THEN EmptyDict
    ELSE [k \in {ParseKey(s) : s \in DOMAIN file.data} |->
              file.data[CHOOSE s \in DOMAIN file.data : ParseKey(s) = k]]

Min(a, b) == IF a <= b THEN a ELSE b
Max(a, b) == IF a <= b THEN b ELSE a

\* the rows are moved by two
RowOffset == 2

\* x_min, x_max, y_min, y_max of the cycle
Rect(c) == [x_min |-> Min(c.x1, c.x2), x_max |-> Max(c.x1, c.x2),
            y_min |-> Min(Min(c.y1, c.y2) + RowOffset, Max(c.y1, c.y2) + RowOffset),
            y_max |-> Max(Min(c.y1, c.y2) + RowOffset, Max(c.y1, c.y2) + RowOffset)]

\* for x in range(x_min, x_max + 1): for y in range(y_min, y_max + 1)
RECURSIVE TilesFrom(_, _, _)
TilesFrom(r, x, y) ==
    IF x > r.x_max THEN <<>>
    ELSE IF y > r.y_max THEN TilesFrom(r, x + 1, r.y_min)
    ELSE <<[x |-> x, y |-> y]>> \o TilesFrom(r, x, y + 1)

Tiles(r) == TilesFrom(r, r.x_min, r.y_min)

\* latlon_to_tile of (lat_min, lon_min) and of (lat_max, lon_max): x grows with
\* the longitude and y falls with the latitude
CornerInputs == {c \in [x1 : {0}, y1 : 0..MaxTile, x2 : 0..MaxTile, y2 : {0}] :
                     c.x1 <= c.x2 /\ c.y2 <= c.y1}

\* accidents.json at startup: absent, or what an earlier run wrote
Snapshots == {NoFile, File(DumpAccidents(EmptyDict)),
              File(DumpAccidents(DictSet(EmptyDict, <<5560, 3740>>, "d1")))}

NoMessage == [text |-> FALSE, appeared |-> {}, resolved |-> {}]

\* "НОВЫЕ СОБЫТИЯ" with the entries of appeared_accidents, then those of
\* resolved_accidents
Message(appeared, resolved) == [text |-> TRUE, appeared |-> appeared, resolved |-> resolved]

\* What /actual answers to chat_id: no access, or the entries of the live dict.
\* The handler changes no state.
cmd_actual(chat_id) ==
    IF ~InList(chat_id, USERS) THEN [access |-> FALSE, accidents |-> EmptyDict]
    ELSE [access |-> TRUE, accidents |-> CURRENT_ACCIDENTS]

InitCycle(cs, files) ==
    /\ corners \in cs
    /\ JSON_STORAGE \in files
    /\ CURRENT_ACCIDENTS = LoadAccidents(JSON_STORAGE)
    /\ pc = "top"
    /\ version = None
    /\ todo = <<>>
    /\ new_accidents = EmptyDict
    /\ appeared_accidents = {}
    /\ resolved_accidents = {}
    /\ message = NoMessage
    /\ tasks = {}

\* The top of the loop up to the first tile: got is what
\* get_yandex_layer_version returned.  The lists and the message of the cycle
\* before are dead from here on and are cleared.
cycle_top(got) ==
    /\ pc = "top"
    /\ new_accidents' = EmptyDict
    /\ version' = got
    /\ todo' = Tiles(Rect(corners))
    /\ appeared_accidents' = {}
    /\ resolved_accidents' = {}
    /\ message' = NoMessage
    /\ pc' = "fetch"
    /\ UNCHANGED <<corners, CURRENT_ACCIDENTS, JSON_STORAGE, tasks>>

\* the tiles are merged into the live dict
fetch_tile_inplace(got) ==
    /\ pc = "fetch"
    /\ todo # <<>>
    /\ todo' = Tail(todo)
    /\ new_accidents' = IF got.kind # "features" THEN new_accidents
                        ELSE DictUpdate(new_accidents, extract_accidents(got.features))
    /\ CURRENT_ACCIDENTS' = IF got.kind # "features" THEN CURRENT_ACCIDENTS
                            ELSE DictUpdate(CURRENT_ACCIDENTS, extract_accidents(got.features))
    /\ UNCHANGED <<corners, pc, version, appeared_accidents, resolved_accidents,
                   message, JSON_STORAGE, tasks>>

\* a failed tile ends the loops over the tiles
fetch_tile_aborts(got) ==
    /\ pc = "fetch"
    /\ todo # <<>>
    /\ todo' = IF got.kind = "failed" THEN <<>> ELSE Tail(todo)
    /\ new_accidents' = IF got.kind # "features" THEN new_accidents
                        ELSE DictUpdate(new_accidents, extract_accidents(got.features))
    /\ UNCHANGED <<corners, pc, version, appeared_accidents, resolved_accidents,
                   message, CURRENT_ACCIDENTS, JSON_STORAGE, tasks>>

\* One pass of the inner loop.  got is what the source answered: "failed"
\* (fetch_tile_json returned None), "empty" (an empty object) or a feature list.
fetch_tile(got) ==
    /\ pc = "fetch"
    /\ todo # <<>>
    /\ todo' = Tail(todo)
    /\ new_accidents' = IF got.kind # "features" THEN new_accidents
                        ELSE DictUpdate(new_accidents, extract_accidents(got.features))
    /\ UNCHANGED <<corners, pc, version, appeared_accidents, resolved_accidents,
                   message, CURRENT_ACCIDENTS, JSON_STORAGE, tasks>>

\* an incident whose description has changed counts as appeared
Appeared_changed(new, old) ==
    {acc \in DOMAIN new : acc \notin DOMAIN old \/ new[acc] # old[acc]}

\* requests.get(url) of fetch_tile_json has no timeout: when the source keeps
\* the connection open and sends nothing, the call never returns, and
\* fetch_and_notify, which makes it without an await, stays in it.
fetch_hangs ==
    /\ pc = "fetch"
    /\ todo # <<>>
    /\ pc' = "blocked"
    /\ UNCHANGED <<corners, version, todo, new_accidents, appeared_accidents,
                   resolved_accidents, message, CURRENT_ACCIDENTS, JSON_STORAGE, tasks>>

Appeared(new, old) == {acc \in DOMAIN new : acc \notin DOMAIN old}

Resolved(new, old) == {acc \in DOMAIN old : acc \notin DOMAIN new}

diff ==
    /\ pc = "fetch"
    /\ todo = <<>>
    /\ appeared_accidents' = Appeared(new_accidents, CURRENT_ACCIDENTS)
    /\ resolved_accidents' = Resolved(new_accidents, CURRENT_ACCIDENTS)
    /\ pc' = "notify"
    /\ UNCHANGED <<corners, version, todo, new_accidents, message, CURRENT_ACCIDENTS,
                   JSON_STORAGE, tasks>>

\* asyncio.create_task(send_notification(app, message)): the task starts at
\* the first place of USERS.  Two tasks at the same place behave alike and are
\* kept as one.
notify ==
    /\ pc = "notify"
    /\ IF appeared_accidents # {} \/ resolved_accidents # {}
       THEN /\ message' = Message(appeared_accidents, resolved_accidents)
            /\ tasks' = tasks \cup {0}
       ELSE UNCHANGED <<message, tasks>>
    /\ pc' = "persist"
    /\ UNCHANGED <<corners, version, todo, new_accidents, appeared_accidents,
                   resolved_accidents, CURRENT_ACCIDENTS, JSON_STORAGE>>

\* the cycle awaits the deliveries before it goes on
persist_after_send ==
    /\ pc = "persist"
    /\ tasks = {}
    /\ JSON_STORAGE' = File(DumpAccidents(new_accidents))
    /\ pc' = "swap"
    /\ UNCHANGED <<corners, version, todo, new_accidents, appeared_accidents,
                   resolved_accidents, message, CURRENT_ACCIDENTS, tasks>>

persist ==
    /\ pc = "persist"
    /\ JSON_STORAGE' = File(DumpAccidents(new_accidents))
    /\ pc' = "swap"
    /\ UNCHANGED <<corners, version, todo, new_accidents, appeared_accidents,
                   resolved_accidents, message, CURRENT_ACCIDENTS, tasks>>

\* the live set keeps the incidents the cycle has not fetched
swap_merges ==
    /\ pc = "swap"
    /\ CURRENT_ACCIDENTS' = DictUpdate(CURRENT_ACCIDENTS, new_accidents)
    /\ pc' = "sleep"
    /\ UNCHANGED <<corners, version, todo, new_accidents, appeared_accidents,
                   resolved_accidents, message, JSON_STORAGE, tasks>>

swap ==
    /\ pc = "swap"
    /\ CURRENT_ACCIDENTS' = new_accidents
    /\ pc' = "sleep"
    /\ UNCHANGED <<corners, version, todo, new_accidents, appeared_accidents,
                   resolved_accidents, message, JSON_STORAGE, tasks>>

\* asyncio.sleep(args.interval) returns
sleep ==
    /\ pc = "sleep"
    /\ pc' = "top"
    /\ UNCHANGED <<corners, version, todo, new_accidents, appeared_accidents,
                   resolved_accidents, message, CURRENT_ACCIDENTS, JSON_STORAGE, tasks>>

\* One pass of the loop of a send_notification task at place i of USERS: the
\* send to USERS[i] returns or raises (delivered), or the list is exhausted and
\* the task returns.  A task runs only while fetch_and_notify is suspended in
\* its sleep: the rest of the cycle has no await.
send_notification(i, delivered) ==
    /\ pc = "sleep"
    /\ i \in tasks
    /\ tasks' = IF i < Len(USERS) THEN (tasks \ {i}) \cup {i + 1} ELSE tasks \ {i}
    /\ UNCHANGED <<corners, pc, version, todo, new_accidents, appeared_accidents,
                   resolved_accidents, message, CURRENT_ACCIDENTS, JSON_STORAGE>>

-----------------------------------------------------------------------------
(* Specification of the registry and the administrator *)

\* users.json, pending.json and known_users.json at startup
Saved(users, pending, known) == [users |-> users, pending |-> pending, known |-> known]

\* no file
NoSaved == Saved(<<>>, EmptyDict, EmptyDict)

\* the files an earlier run left after chats 1 and 2, both without a username,
\* were approved
TwoSaved == Saved(<<1, 2>>, EmptyDict,
                  DictSet(DictSet(EmptyDict, FallbackName(1), 1), FallbackName(2), 2))

NoDispatch == [started |-> FALSE, done |-> FALSE, sent |-> <<>>, stable |-> {}]

NoOutage == [failed |-> FALSE, lost |-> {}]

InitHist ==
    /\ dispatch = NoDispatch
    /\ by_handle = EmptyDict
    /\ outage = NoOutage

InitRegistry(envs, files) ==
    /\ \E e \in envs :
          /\ ADMIN_CHAT_ID = IF e = None THEN AdminNone ELSE AdminStr(e)
          /\ envFile = e
    /\ \E f \in files :
          /\ usersFile = f.users
          /\ pendingFile = f.pending
          /\ knownFile = f.known
    /\ USERS = usersFile
    /\ PENDING = pendingFile
    /\ KNOWN_USERS = knownFile
    /\ ret = NoRet
    /\ reply = "None"
    /\ awaiting = {}

Init ==
    /\ InitRegistry(EnvValues, {NoSaved})
    /\ InitCycle({[x1 |-> 0, y1 |-> 0, x2 |-> 0, y2 |-> 0]}, {NoFile})
    /\ InitHist

\* The handlers of /approve, /deny, /revoke and of the buttons read the chat of
\* the sender only to compare it with the administrator's, or not at all: one
\* chat other than the administrator's stands for all of them.  A command of
\* such a chat is turned down before its arguments are read, and a callback
\* whose query.answer() raises ends before its data is read: one input stands
\* for each of these cases.
OtherChat == CHOOSE c \in ChatIds : c # get_admin_chat_id

SenderInput(c) == c = get_admin_chat_id \/ c = OtherChat

AdminInput(c, a) == c = get_admin_chat_id \/ (c = OtherChat /\ a = <<>>)

AnsweredInput(d, answered) == answered \/ d = <<>>

SetMeAsAdmin ==
    /\ \E c \in ChatIds, n \in UserNames : cmd_set_me_as_admin(c, n)
    /\ UNCHANGED <<cycleVars, histVars>>

Start ==
    /\ \E c \in ChatIds, n \in UserNames : cmd_start(c, n, FALSE)
    /\ UNCHANGED <<cycleVars, histVars>>

Approve ==
    /\ \E c \in ChatIds, a \in ArgLists : AdminInput(c, a) /\ cmd_approve(c, a)
    /\ UNCHANGED <<cycleVars, histVars>>

Deny ==
    /\ \E c \in ChatIds, a \in ArgLists : AdminInput(c, a) /\ cmd_deny(c, a)
    /\ UNCHANGED <<cycleVars, histVars>>

Revoke ==
    /\ \E c \in ChatIds, a \in ArgLists : AdminInput(c, a) /\ cmd_revoke(c, a)
    /\ UNCHANGED <<cycleVars, histVars>>

Callback ==
    /\ \E c \in ChatIds, d \in CallbackData, answered \in BOOLEAN :
          /\ SenderInput(c)
          /\ AnsweredInput(d, answered)
          /\ callback_handler(c, d, answered)
    /\ UNCHANGED <<cycleVars, histVars>>

Next ==
    \/ SetMeAsAdmin
    \/ Start
    \/ Approve
    \/ Deny
    \/ Revoke
    \/ Callback

Spec == Init /\ [][Next]_vars

-----------------------------------------------------------------------------
(* Specification of the registry when every button callback comes from the *)
(* administrator's chat.                                                   *)

AdminCallback ==
    /\ \E c \in ChatIds, d \in CallbackData, answered \in BOOLEAN :
          /\ c = get_admin_chat_id
          /\ AnsweredInput(d, answered)
          /\ callback_handler(c, d, answered)
    /\ UNCHANGED <<cycleVars, histVars>>

NextAdmin ==
    \/ SetMeAsAdmin
    \/ Start
    \/ Approve
    \/ Deny
    \/ Revoke
    \/ AdminCallback

SpecAdmin == Init /\ [][NextAdmin]_vars

-----------------------------------------------------------------------------
(* Specification of concurrent /start and /set_me_as_admin handlers: a     *)
(* cmd_start is suspended at its await and the other handlers run before   *)
(* it goes on.                                                             *)

StartSuspend ==
    /\ \E c \in ChatIds, n \in UserNames : cmd_start(c, n, TRUE)
    /\ UNCHANGED <<cycleVars, histVars>>

NotifyAdmin ==
    /\ \E r \in awaiting, sent \in BOOLEAN : notify_admin(r, sent)
    /\ UNCHANGED <<cycleVars, histVars>>

NextStart ==
    \/ SetMeAsAdmin
    \/ StartSuspend
    \/ NotifyAdmin

InitStart ==
    /\ InitRegistry(EnvValues, {NoSaved, TwoSaved})
    /\ InitCycle({[x1 |-> 0, y1 |-> 0, x2 |-> 0, y2 |-> 0]}, {NoFile})
    /\ InitHist

SpecStart == InitStart /\ [][NextStart]_vars

-----------------------------------------------------------------------------
(* Specification of the reconciliation loop *)

InitLoop ==
    /\ InitRegistry({None}, {NoSaved})
    /\ InitCycle(CornerInputs, Snapshots)
    /\ InitHist

CycleTop ==
    /\ \E got \in {None, <<"v">>} : cycle_top(got)
    /\ UNCHANGED <<regVars, histVars>>

FetchTile ==
    /\ \E got \in TileAnswers : fetch_tile(got)
    /\ UNCHANGED <<regVars, histVars>>

Diff == diff /\ UNCHANGED <<regVars, histVars>>

Notify == notify /\ UNCHANGED <<regVars, histVars>>

Persist == persist /\ UNCHANGED <<regVars, histVars>>

Swap == swap /\ UNCHANGED <<regVars, histVars>>

Sleep == sleep /\ UNCHANGED <<regVars, histVars>>

SendNotification ==
    /\ \E i \in tasks, delivered \in BOOLEAN : send_notification(i, delivered)
    /\ UNCHANGED <<regVars, histVars>>

NextLoop ==
    \/ CycleTop
    \/ FetchTile
    \/ Diff
    \/ Notify
    \/ Persist
    \/ Swap
    \/ Sleep
    \/ SendNotification

SpecLoop == InitLoop /\ [][NextLoop]_vars

-----------------------------------------------------------------------------
(* Specification of one dispatch and the registry: the cycle finds the      *)
(* incident of the snapshot gone, creates a send_notification task and      *)
(* sleeps; the administrator's /approve and /revoke and the chats' /start   *)
(* run between two deliveries of the task.  Handlers and deliveries run     *)
(* only while fetch_and_notify is suspended in its sleep.                   *)

\* deliveries one dispatch attempts in the model
MaxSent == 3

OneTile == [x1 |-> 0, y1 |-> 0, x2 |-> 0, y2 |-> 0]

OneAccident == File(DumpAccidents(DictSet(EmptyDict, <<5560, 3740>>, "d1")))

InitDispatch ==
    /\ InitRegistry({str(1)}, {TwoSaved})
    /\ InitCycle({OneTile}, {OneAccident})
    /\ InitHist

\* the chat ids that are in USERS from the creation of the task on
StillApproved == [dispatch EXCEPT !.stable = @ \cap Range(USERS')]

FetchNothing ==
    /\ \E got \in {a \in TileAnswers : a.kind # "features"} : fetch_tile(got)
    /\ UNCHANGED <<regVars, histVars>>

NotifyTask ==
    /\ notify
    /\ dispatch' = IF message'.text /\ ~dispatch.started
                   THEN [started |-> TRUE, done |-> FALSE, sent |-> <<>>,
                         stable |-> Range(USERS)]
                   ELSE dispatch
    /\ UNCHANGED <<regVars, by_handle, outage>>

StartDuring ==
    /\ pc = "sleep"
    /\ \E c \in ChatIds, n \in UserNames : cmd_start(c, n, FALSE)
    /\ dispatch' = StillApproved
    /\ UNCHANGED <<cycleVars, by_handle, outage>>

ApproveDuring ==
    /\ pc = "sleep"
    /\ \E a \in ArgLists : cmd_approve(get_admin_chat_id, a)
    /\ dispatch' = StillApproved
    /\ UNCHANGED <<cycleVars, by_handle, outage>>

RevokeDuring ==
    /\ pc = "sleep"
    /\ \E a \in ArgLists : cmd_revoke(get_admin_chat_id, a)
    /\ dispatch' = StillApproved
    /\ UNCHANGED <<cycleVars, by_handle, outage>>

\* one pass of the loop of the task: the delivery to USERS[i] is attempted, or
\* the list is exhausted and the task returns
SendOne ==
    /\ Len(dispatch.sent) < MaxSent
    /\ \E i \in tasks, delivered \in BOOLEAN :
          /\ send_notification(i, delivered)
          /\ dispatch' = IF i < Len(USERS)
                         THEN [dispatch EXCEPT !.sent = Append(@, USERS[i + 1])]
                         ELSE [dispatch EXCEPT !.done = TRUE]
    /\ UNCHANGED <<regVars, by_handle, outage>>

NextDispatch ==
    \/ CycleTop
    \/ FetchNothing
    \/ Diff
    \/ NotifyTask
    \/ Persist
    \/ Swap
    \/ Sleep
    \/ StartDuring
    \/ ApproveDuring
    \/ RevokeDuring
    \/ SendOne

SpecDispatch == InitDispatch /\ [][NextDispatch]_vars

-----------------------------------------------------------------------------
(* Specification of the loop with two subscribers and deliveries that may  *)
(* never complete: every step of fetch_and_notify is taken once it can be, *)
(* a step of a send_notification task need not be.                         *)

InitDelivery ==
    /\ InitRegistry({None}, {TwoSaved})
    /\ InitCycle({OneTile}, Snapshots)
    /\ InitHist

CycleFair ==
    /\ WF_vars(CycleTop)
    /\ WF_vars(FetchTile)
    /\ WF_vars(Diff)
    /\ WF_vars(Notify)
    /\ WF_vars(Persist)
    /\ WF_vars(Swap)
    /\ WF_vars(Sleep)

SpecDelivery == InitDelivery /\ [][NextLoop]_vars /\ CycleFair

-----------------------------------------------------------------------------
(* Specification of the loop over a rectangle of two tiles, with the tile   *)
(* fetches that fail recorded: outage.failed says that a fetch of this      *)
(* cycle has failed, outage.lost holds the identities that a cycle with a   *)
(* failed fetch dropped from the live set and no cycle has fetched since.   *)

TwoTiles == [x1 |-> 0, y1 |-> 1, x2 |-> 0, y2 |-> 0]

InitOutage ==
    /\ InitRegistry({None}, {NoSaved})
    /\ InitCycle({TwoTiles}, Snapshots)
    /\ InitHist

TopOutage ==
    /\ \E got \in {None, <<"v">>} : cycle_top(got)
    /\ outage' = [outage EXCEPT !.failed = FALSE]
    /\ UNCHANGED <<regVars, dispatch, by_handle>>

FetchOutage ==
    /\ \E got \in TileAnswers :
          /\ fetch_tile(got)
          /\ outage' = [outage EXCEPT !.failed = @ \/ got.kind = "failed"]
    /\ UNCHANGED <<regVars, dispatch, by_handle>>

SwapOutage ==
    /\ swap
    /\ outage' = [outage EXCEPT !.lost = (@ \ DOMAIN new_accidents) \cup
                             (IF outage.failed THEN resolved_accidents ELSE {})]
    /\ UNCHANGED <<regVars, dispatch, by_handle>>

NextOutage ==
    \/ TopOutage
    \/ FetchOutage
    \/ Diff
    \/ Notify
    \/ Persist
    \/ SwapOutage
    \/ Sleep
    \/ SendNotification

SpecOutage ==
    /\ InitOutage
    /\ [][NextOutage]_vars
    /\ WF_vars(TopOutage) /\ WF_vars(FetchOutage) /\ WF_vars(Diff) /\ WF_vars(Notify)
    /\ WF_vars(Persist) /\ WF_vars(SwapOutage) /\ WF_vars(Sleep)
    /\ WF_vars(SendNotification)

-----------------------------------------------------------------------------
(* Specification of the loop with a source that may never answer: the      *)
(* layer-version request ends after its timeout with None, a tile request  *)
(* is answered or never returns.                                           *)

FetchHangs == fetch_hangs /\ UNCHANGED <<regVars, histVars>>

\* the request of the tile is made, whatever becomes of it
FetchCall == FetchTile \/ FetchHangs

NextHang ==
    \/ CycleTop
    \/ FetchCall
    \/ Diff
    \/ Notify
    \/ Persist
    \/ Swap
    \/ Sleep
    \/ SendNotification

SpecHang ==
    /\ InitDelivery
    /\ [][NextHang]_vars
    /\ WF_vars(CycleTop) /\ WF_vars(FetchCall) /\ WF_vars(Diff) /\ WF_vars(Notify)
    /\ WF_vars(Persist) /\ WF_vars(Swap) /\ WF_vars(Sleep)
    /\ WF_vars(SendNotification)

-----------------------------------------------------------------------------
(* Specification of the registry with crashes inside save_all: the process *)
(* dies after k of the three writes of save_all, in the order users.json,  *)
(* pending.json, known_users.json, and starts again from the files.        *)

\* the writes of save_all in the model: none, users.json, users.json and pending.json
TornWrites == 0..2

\* the module start: the globals are loaded from .env and the files
restart ==
    /\ ADMIN_CHAT_ID' = IF envFile = None THEN AdminNone ELSE AdminStr(envFile)
    /\ USERS' = usersFile'
    /\ PENDING' = pendingFile'
    /\ KNOWN_USERS' = knownFile'
    /\ ret' = NoRet
    /\ reply' = "None"
    /\ awaiting' = {}
    /\ UNCHANGED envFile

\* save_all with users, pending and known in memory, cut after k writes
save_torn(users, pending, known, k) ==
    /\ usersFile' = IF k >= 1 THEN users ELSE usersFile
    /\ pendingFile' = IF k >= 2 THEN pending ELSE pendingFile
    /\ knownFile' = IF k >= 3 THEN known ELSE knownFile

\* approve_user up to a crash in its save_all
approve_user_crash(username, k) ==
    LET u == normalize_username(username) IN
    /\ u \in DOMAIN PENDING
    /\ save_torn(IF ~InList(PENDING[u], USERS) THEN Append(USERS, PENDING[u]) ELSE USERS,
                 DictPop(PENDING, u), KNOWN_USERS, k)
    /\ restart

\* deny_user up to a crash in its save_all
deny_user_crash(username, k) ==
    LET u == normalize_username(username) IN
    /\ u \in DOMAIN PENDING
    /\ save_torn(USERS, DictPop(PENDING, u), KNOWN_USERS, k)
    /\ restart

InitCrash ==
    /\ InitRegistry({str(1)}, {NoSaved})
    /\ InitCycle({OneTile}, {NoFile})
    /\ InitHist

CrashInApprove ==
    /\ get_admin_chat_id \in ChatIds
    /\ \E a \in ArgNames, k \in TornWrites : approve_user_crash(normalize_username(a), k)
    /\ UNCHANGED <<cycleVars, histVars>>

CrashInDeny ==
    /\ get_admin_chat_id \in ChatIds
    /\ \E a \in ArgNames, k \in TornWrites : deny_user_crash(normalize_username(a), k)
    /\ UNCHANGED <<cycleVars, histVars>>

NextCrash ==
    \/ Start
    \/ Approve
    \/ Deny
    \/ Revoke
    \/ CrashInApprove
    \/ CrashInDeny

SpecCrash == InitCrash /\ [][NextCrash]_vars

-----------------------------------------------------------------------------
(* Specification of the loop over a rectangle of two tiles with two         *)
(* subscribers, who may ask /actual at any time.                            *)

InitActual ==
    /\ InitRegistry({None}, {TwoSaved})
    /\ InitCycle({TwoTiles}, Snapshots)
    /\ InitHist

SpecActual == InitActual /\ [][NextLoop]_vars

-----------------------------------------------------------------------------
(* Specification of the registry with the approvals recorded: by_handle    *)
(* maps a handle to the chat id that an /approve of it appended to USERS,  *)
(* as long as that chat id stays in USERS.                                 *)

InitRevoke ==
    /\ InitRegistry({str(1)}, {NoSaved})
    /\ InitCycle({OneTile}, {NoFile})
    /\ InitHist

ApproveLogged ==
    /\ \E a \in ArgNames :
          /\ cmd_approve(get_admin_chat_id, <<a>>)
          /\ by_handle' = IF Len(USERS') > Len(USERS)
                          THEN DictSet(by_handle, normalize_username(a),
                                       USERS'[Len(USERS')])
                          ELSE by_handle
    /\ UNCHANGED <<cycleVars, dispatch, outage>>

RevokeLogged ==
    /\ \E a \in ArgNames : cmd_revoke(get_admin_chat_id, <<a>>)
    /\ by_handle' = [h \in {g \in DOMAIN by_handle : by_handle[g] \in Range(USERS')}
                        |-> by_handle[h]]
    /\ UNCHANGED <<cycleVars, dispatch, outage>>

NextRevoke ==
    \/ Start
    \/ ApproveLogged
    \/ Deny
    \/ RevokeLogged

SpecRevoke == InitRevoke /\ [][NextRevoke]_vars

-----------------------------------------------------------------------------
(* Properties *)

Registries == <<USERS, PENDING, KNOWN_USERS>>

\* an approve action for some handle, issued from chat c
ApproveAction(c) ==
    \/ \E a \in ArgLists : cmd_approve(c, a)
    \/ \E n \in ButtonNames : callback_handler(c, <<"approve", ":">> \o n, TRUE)

\* C1: a chat id enters the approved list only in an approve action issued
\* from the administrator's chat, and an approve action issued from any other
\* chat changes no registry.
C1_Gatekeeping ==
    [][ /\ (\E c \in Range(USERS') : c \notin Range(USERS))
           => (get_admin_chat_id \in ChatIds /\ ApproveAction(get_admin_chat_id))
        /\ \A c \in ChatIds :
              (c # get_admin_chat_id /\ ApproveAction(c)) => UNCHANGED Registries ]_vars

\* C2: no handle in pending maps to a chat id that is in approved.
C2_PendingNotApproved ==
    \A h \in DOMAIN PENDING : PENDING[h] \notin Range(USERS)

\* what an approve of handle h does to the registries and returns
ApproveContract(h) ==
    IF h \notin DOMAIN PENDING
    THEN /\ ret' = [ok |-> FALSE, msg |-> "NotPending"]
         /\ UNCHANGED Registries
    ELSE /\ ret' = [ok |-> TRUE, msg |-> "Approved"]
         /\ h \notin DOMAIN PENDING'
         /\ DOMAIN PENDING' = DOMAIN PENDING \ {h}
         /\ \A g \in DOMAIN PENDING' : PENDING'[g] = PENDING[g]
         /\ Range(USERS') = Range(USERS) \cup {PENDING[h]}
         /\ UNCHANGED KNOWN_USERS

\* a handle enters pending only in a /start
OnlyStartQueues ==
    (\E h \in DOMAIN PENDING' : h \notin DOMAIN PENDING)
    => (reply' \in {"None", "Submitted", "SubmittedNoAdmin"} /\ ret' = NoRet)

\* C3: an approve of a handle that is not pending fails as not pending and
\* changes no registry; an approve of a pending handle takes it out of pending,
\* leaves its chat id in approved and succeeds; and a handle enters pending
\* only through a /start, so that a second approve fails as not pending.
C3_Approve ==
    [][ /\ reply' \in {"NotPending", "Approved"} => \A a \in ArgNames :
              \/ ApproveContract(normalize_username(a)) /\ reply' = ret'.msg
              \/ ~ (get_admin_chat_id \in ChatIds
                      /\ cmd_approve(get_admin_chat_id, <<a>>))
        /\ (ret'.msg \in {"NotPending", "Approved"} /\ reply' = "None")
           => \A n \in ButtonNames :
              \/ ApproveContract(n)
              \/ ~ \E c \in ChatIds : callback_handler(c, <<"approve", ":">> \o n, TRUE)
        /\ OnlyStartQueues ]_vars

C3_Witness ==
    /\ ret = [ok |-> TRUE, msg |-> "Approved"]
    /\ reply = "Approved"
    /\ get_admin_chat_id \in ChatIds
    /\ USERS # <<>>

\* C4: the approved list holds no chat id twice.
C4_NoDuplicates ==
    \A i, j \in 1..Len(USERS) : i # j => USERS[i] # USERS[j]

\* two handles of chat 1 were queued and none is left, and the last one was approved
C4_Witness ==
    /\ USERS = <<1>>
    /\ PENDING = EmptyDict
    /\ ret = [ok |-> TRUE, msg |-> "Approved"]
    /\ {<<"a">>, FallbackName(1)} \subseteq DOMAIN KNOWN_USERS
    /\ KNOWN_USERS[<<"a">>] = 1

\* what a deny of handle h does to the registries and returns
DenyContract(h) ==
    IF h \notin DOMAIN PENDING
    THEN /\ ret' = [ok |-> FALSE, msg |-> "NotPending"]
         /\ UNCHANGED Registries
    ELSE /\ ret' = [ok |-> TRUE, msg |-> "Denied"]
         /\ DOMAIN PENDING' = DOMAIN PENDING \ {h}
         /\ \A g \in DOMAIN PENDING' : PENDING'[g] = PENDING[g]
         /\ UNCHANGED <<USERS, KNOWN_USERS>>

\* C5: a deny of a handle that is not pending fails as not pending and changes
\* no registry; a deny of a pending handle removes that handle alone from
\* pending and leaves approved and known as they are; a handle enters pending
\* only through a /start, so that a second deny fails as not pending.
C5_Deny ==
    [][ /\ reply' \in {"NotPending", "Denied"} => \A a \in ArgNames :
              \/ DenyContract(normalize_username(a)) /\ reply' = ret'.msg
              \/ ~ (get_admin_chat_id \in ChatIds
                      /\ cmd_deny(get_admin_chat_id, <<a>>))
        /\ (ret'.msg \in {"NotPending", "Denied"} /\ reply' = "None")
           => \A n \in ButtonNames :
              \/ DenyContract(n)
              \/ ~ \E c \in ChatIds : callback_handler(c, <<"deny", ":">> \o n, TRUE)
        /\ OnlyStartQueues ]_vars

C5_Witness ==
    /\ ret = [ok |-> TRUE, msg |-> "Denied"]
    /\ reply = "Denied"
    /\ USERS # <<>>
    /\ PENDING # EmptyDict

\* what a revoke of handle h does to the registries and answers
RevokeContract(h) ==
    IF h \notin DOMAIN KNOWN_USERS
    THEN reply' = "UnknownUser" /\ UNCHANGED Registries
    ELSE IF KNOWN_USERS[h] \notin Range(USERS)
    THEN reply' = "NotSubscribed" /\ UNCHANGED Registries
    ELSE /\ reply' = "Revoked"
         /\ Range(USERS') = Range(USERS) \ {KNOWN_USERS[h]}
         /\ Len(USERS') = Len(USERS) - 1
         /\ UNCHANGED <<PENDING, KNOWN_USERS>>

\* C6: a revoke of a handle that known does not hold reports an unknown
\* handle, a revoke of a handle whose chat id is not approved reports that it
\* is not subscribed, and both change no registry; otherwise the revoke takes
\* that chat id, and no other, out of approved and leaves pending and known.
C6_Revoke ==
    [][ reply' \in {"UnknownUser", "NotSubscribed", "Revoked"} => \A a \in ArgNames :
           \/ RevokeContract(normalize_username(a))
           \/ ~ (get_admin_chat_id \in ChatIds
                   /\ cmd_revoke(get_admin_chat_id, <<a>>)) ]_vars

\* a revoke took one of two approved chats out and left the other
C6_Witness ==
    /\ reply = "Revoked"
    /\ Len(USERS) = 1
    /\ \E h \in DOMAIN KNOWN_USERS : KNOWN_USERS[h] \notin Range(USERS)

\* C7 as claimed: a /start of an approved chat answers that it is subscribed
\* already and changes none of approved, pending and known.
C7_NoStateChange ==
    [][ \A c \in ChatIds, n \in UserNames :
           (c \in Range(USERS) /\ cmd_start(c, n, FALSE))
           => (reply' = "AlreadySubscribed" /\ UNCHANGED Registries) ]_vars

\* C7 as amended: a /start of an approved chat answers that it is subscribed
\* already and changes neither approved nor pending; known changes at the
\* handle presented alone, which maps to the chat id afterwards.
C7_KnownUpsertOnly ==
    [][ \A c \in ChatIds, n \in UserNames :
           (c \in Range(USERS) /\ cmd_start(c, n, FALSE))
           => /\ reply' = "AlreadySubscribed"
              /\ UNCHANGED <<USERS, PENDING>>
              /\ DOMAIN KNOWN_USERS' = DOMAIN KNOWN_USERS \cup {StartName(c, n)}
              /\ KNOWN_USERS'[StartName(c, n)] = c
              /\ \A g \in DOMAIN KNOWN_USERS \ {StartName(c, n)} :
                    KNOWN_USERS'[g] = KNOWN_USERS[g] ]_vars

\* an approved chat has sent /start under a second handle
C7_Witness ==
    /\ reply = "AlreadySubscribed"
    /\ USERS = <<1>>
    /\ PENDING = EmptyDict
    /\ Cardinality({h \in DOMAIN KNOWN_USERS : KNOWN_USERS[h] = 1}) >= 2

\* the handle of a suspended /start maps to its chat id in pending and in known
Landed(r) ==
    /\ r.username \in DOMAIN PENDING /\ PENDING[r.username] = r.chat
    /\ r.username \in DOMAIN KNOWN_USERS /\ KNOWN_USERS[r.username] = r.chat

\* C8: a /start of a chat that is not approved, with a handle that is not
\* pending, leaves the handle mapped to the chat id in pending and in known,
\* with or without an administrator; and while the handler is suspended at its
\* send to the administrator, no step of a /start with another handle, of a
\* send to the administrator that returns or raises, or of /set_me_as_admin
\* takes that away.
C8_StartLands ==
    [][ /\ \A c \in ChatIds, n \in UserNames :
              (c \notin Range(USERS) /\ StartName(c, n) \notin DOMAIN PENDING
                 /\ cmd_start(c, n, TRUE))
              => Landed([chat |-> c, username |-> StartName(c, n)])'
        /\ \A r \in awaiting :
              (Landed(r) /\ ~ \E c \in ChatIds, n \in UserNames :
                                 StartName(c, n) = r.username /\ cmd_start(c, n, TRUE))
              => Landed(r)' ]_vars

\* two /start handlers are suspended at once and a third call has ended
C8_Witness ==
    /\ Cardinality(awaiting) >= 2
    /\ \A r \in awaiting : Landed(r)
    /\ Cardinality(DOMAIN PENDING) >= 3

\* C9: once an administrator chat id is set, no step changes ADMIN_CHAT_ID.
C9_AdminImmutable ==
    [][ get_admin_chat_id # NoneInt => ADMIN_CHAT_ID' = ADMIN_CHAT_ID ]_vars

\* the administrator was set by /set_me_as_admin and a later call was turned down
C9_Witness ==
    /\ ADMIN_CHAT_ID.kind = "int"
    /\ reply = "AdminAlreadySet"

\* C10: from the diff to the swap, the appeared identities are those of the
\* new mapping that the live set lacks, the resolved ones are those of the live
\* set that the new mapping lacks, an identity in both is in neither list, and
\* the message of the cycle carries exactly the two lists.
C10_Diff ==
    /\ pc \in {"notify", "persist", "swap"}
       => /\ appeared_accidents = DOMAIN new_accidents \ DOMAIN CURRENT_ACCIDENTS
          /\ resolved_accidents = DOMAIN CURRENT_ACCIDENTS \ DOMAIN new_accidents
          /\ \A k \in DOMAIN new_accidents \cap DOMAIN CURRENT_ACCIDENTS :
                k \notin appeared_accidents \cup resolved_accidents
    /\ pc \in {"persist", "swap"}
       => /\ message.text = (appeared_accidents \cup resolved_accidents # {})
          /\ message.appeared = DOMAIN new_accidents \ DOMAIN CURRENT_ACCIDENTS
          /\ message.resolved = DOMAIN CURRENT_ACCIDENTS \ DOMAIN new_accidents

\* one cycle with an appeared incident, a resolved one and one whose
\* description has changed
C10_Witness ==
    /\ pc = "persist"
    /\ message.text
    /\ message.appeared # {}
    /\ message.resolved # {}
    /\ \E k \in DOMAIN new_accidents \cap DOMAIN CURRENT_ACCIDENTS :
          new_accidents[k] # CURRENT_ACCIDENTS[k]

\* deliveries to chat c the dispatch has attempted
Attempts(c) == Cardinality({i \in 1..Len(dispatch.sent) : dispatch.sent[i] = c})

\* C11: a dispatch never attempts a second delivery to a chat id that has been
\* in approved since the dispatch began, and when its task has returned it
\* has attempted exactly one delivery to every such chat id.
C11_ExactlyOnce ==
    /\ \A c \in dispatch.stable : Attempts(c) <= 1
    /\ dispatch.done => \A c \in dispatch.stable : Attempts(c) = 1

\* C12: the step that creates the task goes on to persist; a cycle that has
\* dispatched reaches its persist, its swap, its sleep and the first fetch of
\* the next cycle while deliveries are outstanding or never made; and a step
\* of a delivery, returned or raised, changes nothing of the cycle: neither
\* its place, nor the new mapping, the live set or the snapshot.
C12_NoWaitForDelivery ==
    /\ [][ (pc = "notify" /\ tasks' # tasks) => (pc' = "persist" /\ 0 \in tasks') ]_vars
    /\ [][ (pc = "sleep" /\ pc' = "sleep" /\ tasks' # tasks)
              => UNCHANGED <<todo, new_accidents, CURRENT_ACCIDENTS, JSON_STORAGE,
                             appeared_accidents, resolved_accidents, message>> ]_vars
    /\ (pc = "persist" /\ message.text) ~> (pc = "swap")
    /\ (pc = "swap") ~> (pc = "sleep" /\ CURRENT_ACCIDENTS = new_accidents)
    /\ (pc = "sleep") ~> (pc = "fetch")

\* the next cycle is fetching while a task that has delivered to the first
\* subscriber has not returned, after a cycle that dispatched and swapped
C12_Witness ==
    /\ pc = "fetch"
    /\ 1 \in tasks
    /\ JSON_STORAGE.exists
    /\ CURRENT_ACCIDENTS = LoadAccidents(JSON_STORAGE)
    /\ CURRENT_ACCIDENTS # EmptyDict

\* a feature with a missing field
Malformed(f) == ~f.props \/ ~f.geom \/ ~f.desc

\* the accidents of the well-formed features inside the bounding box, a later
\* feature of an identity replacing an earlier one
RECURSIVE WellFormedAccidents(_, _)
WellFormedAccidents(features, accidents) ==
    IF features = <<>> THEN accidents
    ELSE LET f == Head(features) IN
         WellFormedAccidents(Tail(features),
             IF ~Malformed(f) /\ f.eventType = AccidentType /\ in_bounds(f.lat, f.lon)
             THEN DictSet(accidents, <<f.lat, f.lon>>, f.description)
             ELSE accidents)

\* C13: a tile with one malformed feature adds to the new mapping exactly the
\* accidents of its well-formed features inside the bounding box, wherever
\* the malformed feature is in the list.
C13_SkipsOnlyMalformed ==
    [][ \A got \in TileAnswers :
           ( /\ got.kind = "features"
             /\ Cardinality({i \in 1..Len(got.features) : Malformed(got.features[i])}) = 1
             /\ fetch_tile(got) )
           => new_accidents' = DictUpdate(new_accidents,
                                          WellFormedAccidents(got.features, EmptyDict)) ]_vars

C15_CyclesComplete ==
    /\ (pc = "fetch") ~> (pc = "sleep")
    /\ (pc = "sleep") ~> (pc = "fetch")

\* approved and pending after a complete approve of handle h
ApprovePost(h) ==
    <<IF PENDING[h] \in Range(USERS) THEN USERS ELSE Append(USERS, PENDING[h]),
      [g \in DOMAIN PENDING \ {h} |-> PENDING[g]]>>

\* approved and pending after a complete deny of handle h
DenyPost(h) == <<USERS, [g \in DOMAIN PENDING \ {h} |-> PENDING[g]]>>

\* C16: after a crash inside an approve or a deny, approved and pending as
\* reloaded from the files are the registries as they were before the
\* operation or as they are after it.
C16_CrashAtomic ==
    [][ \A h \in ButtonNames, k \in TornWrites :
           /\ approve_user_crash(h, k)
                 => <<USERS', PENDING'>> \in {<<USERS, PENDING>>, ApprovePost(h)}
           /\ deny_user_crash(h, k)
                 => <<USERS', PENDING'>> \in {<<USERS, PENDING>>, DenyPost(h)} ]_vars

\* C17: the live set changes in the swap alone, when every tile of the cycle
\* has been fetched and the new mapping is in the snapshot file, and it
\* becomes the new mapping whole; the loop is at one place of one cycle, and
\* the first fetch of a cycle follows the swap of the cycle before; what
\* /actual shows a subscriber is, outside the step between persist and swap,
\* the mapping of the snapshot file, which is the one of the last completed
\* cycle or the one loaded at startup.
C17_LiveSet ==
    /\ [][ CURRENT_ACCIDENTS' # CURRENT_ACCIDENTS
              => /\ pc = "swap" /\ pc' = "sleep"
                 /\ todo = <<>>
                 /\ JSON_STORAGE = File(DumpAccidents(new_accidents))
                 /\ CURRENT_ACCIDENTS' = new_accidents ]_vars
    /\ [][ (pc' = "fetch" /\ pc # "fetch") => (pc = "top" /\ todo' = Tiles(Rect(corners))) ]_vars
    /\ [][ (pc' = "top" /\ pc # "top") => (pc = "sleep" /\ CURRENT_ACCIDENTS = new_accidents) ]_vars
    /\ [] (pc # "swap" => \A c \in Range(USERS) :
              cmd_actual(c) = [access |-> TRUE, accidents |-> LoadAccidents(JSON_STORAGE)])

\* a cycle has merged the first of two tiles into a new mapping that differs
\* from the live set, which an earlier cycle swapped in
C17_Witness ==
    /\ pc = "fetch"
    /\ Len(todo) = 1
    /\ <<5591, 3785>> \in DOMAIN CURRENT_ACCIDENTS    \* in no snapshot of the startup
    /\ CURRENT_ACCIDENTS = LoadAccidents(JSON_STORAGE)
    /\ new_accidents # EmptyDict
    /\ DOMAIN new_accidents # DOMAIN CURRENT_ACCIDENTS
    /\ \E c \in Range(USERS) : cmd_actual(c).accidents = CURRENT_ACCIDENTS

\* the chat ids known records
KnownChats(known) == {known[h] : h \in DOMAIN known}

\* C18: a /start of a chat leaves its chat id recorded in known, no step takes
\* a chat id out of known, and every handle in pending maps in known to the
\* chat id it maps to in pending.
C18_KnownSuperset ==
    /\ [][ \A c \in ChatIds, n \in UserNames :
              cmd_start(c, n, FALSE) => c \in KnownChats(KNOWN_USERS') ]_vars
    /\ [][ KnownChats(KNOWN_USERS) \subseteq KnownChats(KNOWN_USERS') ]_vars
    /\ [] (\A h \in DOMAIN PENDING :
              h \in DOMAIN KNOWN_USERS /\ KNOWN_USERS[h] = PENDING[h])

\* C19: a /revoke of a handle whose approve added a chat id that is still
\* approved takes that chat id out of approved.
C19_RevokeByApprovedHandle ==
    [][ \A a \in ArgNames :
           ( /\ normalize_username(a) \in DOMAIN by_handle
             /\ by_handle[normalize_username(a)] \in Range(USERS)
             /\ cmd_revoke(get_admin_chat_id, <<a>>) )
           => by_handle[normalize_username(a)] \notin Range(USERS') ]_vars

\* C20: in a cycle with a failed tile fetch, the incidents of the live set
\* that the new mapping lacks are all in the resolved list and in the message;
\* after the swap they are neither in the live set nor in the snapshot file;
\* an incident dropped that way stays out of the live set until a cycle
\* fetches it, and that cycle has it in its appeared list and its message.
C20_OutageResolves ==
    /\ (pc \in {"notify", "persist", "swap"} /\ outage.failed)
          => resolved_accidents = DOMAIN CURRENT_ACCIDENTS \ DOMAIN new_accidents
    /\ (pc \in {"persist", "swap", "sleep"} /\ outage.failed /\ resolved_accidents # {})
          => (message.text /\ message.resolved = resolved_accidents)
    /\ (pc = "sleep" /\ outage.failed)
          => \A k \in resolved_accidents :
                k \notin DOMAIN CURRENT_ACCIDENTS /\ FormatKey(k) \notin DOMAIN JSON_STORAGE.data
    /\ outage.lost \cap DOMAIN CURRENT_ACCIDENTS = {}
    /\ pc \in {"notify", "persist", "swap"}
          => \A k \in outage.lost \cap DOMAIN new_accidents : k \in appeared_accidents
    /\ pc \in {"persist", "swap"}
          => \A k \in outage.lost \cap DOMAIN new_accidents : k \in message.appeared

\* an incident that a cycle with a failed fetch dropped is in the message of a
\* later cycle, whose fetches all succeeded, as appeared
C20_Witness ==
    /\ pc = "persist"
    /\ ~outage.failed
    /\ outage.lost \cap message.appeared # {}

====
